---- MODULE Spec2Model ----
(***************************************************************************)
(* pyFind (src/pyFind.py): a recursive file search that matches a regular  *)
(* expression against every path of a directory tree down to a maximum     *)
(* depth, or against every line of standard input, and runs a templated    *)
(* command on every match.                                                 *)
(*                                                                         *)
(* Text is a sequence of one-character strings.  Two state machines share  *)
(* the module: the pattern sanitizer of main (SpecSan) and the run that    *)
(* main starts once the pattern is compiled (Spec: treeTraverse or         *)
(* filterStdin, with the spawned action processes).                        *)
(***************************************************************************)
EXTENDS Integers, Sequences, FiniteSets, TLC

VARIABLES
    raw,          \* main: the pattern as given on the command line
    regex,        \* main: the local `regex`, rewritten in place
    sanPc,        \* main: position in lines 242-255
    compiled,     \* main: the pattern text regCompile was built from
    mode,         \* "tree" (targetPath given) or "filter"
    fs,           \* the file system: what the os.* calls answer per entry
    input,        \* the lines on standard input when the run starts
    maxdepth,     \* options.maxdepth after int()
    pat,          \* regCompile
    action,       \* options.action
    verbosity,    \* options.verbosity
    onlyMatches,  \* options.onlyMatches
    osName,       \* OS_NAME
    stack,        \* treeTraverse: the active calls, innermost first
    pc,           \* position of the run
    stdin,        \* filterStdin: the lines not read yet
    lineIn,       \* filterStdin: lineIn
    stdinReading, \* filterStdin: stdinReading
    calls,        \* history: every treeTraverse invocation, in order
    evals,        \* history: every matchPatterns invocation, in order
    dispatched,   \* history: every handleFunctionExecution invocation
    out,          \* sys.stdout
    err,          \* sys.stderr
    running,      \* spawned action processes that have not exited
    fault         \* the exception that left the run, or "none"

sanVars == <<raw, regex, sanPc, compiled>>
cfgVars == <<mode, fs, input, maxdepth, pat, action, verbosity,
             onlyMatches, osName>>
runVars == <<stack, pc, stdin, lineIn, stdinReading, calls, evals,
             dispatched, out, err, running, fault>>
vars == <<raw, regex, sanPc, compiled, mode, fs, input, maxdepth,
          pat, action, verbosity, onlyMatches, osName, stack, pc, stdin, lineIn,
          stdinReading, calls, evals, dispatched, out, err, running, fault>>

(***************************************************************************)
(* Bounds                                                                  *)
(***************************************************************************)
MaxPatLen == 4

NumEntries == 2

MaxFanout == 2

MaxDepth == 1

MaxLines == 1

MaxLineLen == 1

(***************************************************************************)
(* Text helpers                                                            *)
(***************************************************************************)
RECURSIVE StringsUpTo(_, _)
StringsUpTo(chars, n) ==
    IF n = 0 THEN {<<>>}
    ELSE LET shorter == StringsUpTo(chars, n - 1)
         IN  shorter \cup {Append(s, c) : s \in shorter, c \in chars}

Range(s) == {s[i] : i \in 1..Len(s)}

Drop(s, n) == SubSeq(s, n + 1, Len(s))

(***************************************************************************)
(* The pattern sanitizer: main, lines 242-255                              *)
(***************************************************************************)
PatChars == {".", "*", "\\", "^", "$", "c"}

UNIVERSAL == <<"^", ".", "*", "$">>

\* re.search('^\.\*$', regex)
IsDotStar(txt) == txt = <<".", "*">>

\* re.match('[^\.]*(\*+)', txt): a prefix of non-dot characters that ends
\* in an asterisk (the class [^\.] takes asterisks too).
unsafeAsteriks(txt) ==
    \/ txt = <<"*">>
    \/ \E j \in 1..Len(txt) :
          /\ txt[j] = "*"
          /\ \A i \in 1..(j - 1) : txt[i] # "."

\* re.match('([^\\\]\.+)[^\*]*', txt): the Python literal is the regex
\* ([^\\]\.+)[^\*]* , i.e. a first character that is not a backslash and a
\* dot right after it; the trailing [^\*]* matches the empty string.
unsafeDots(txt) ==
    \/ txt = <<".">>
    \/ /\ Len(txt) >= 2
       /\ txt[1] # "\\"
       /\ txt[2] = "."

\* length of the run of character c that starts at position i of s
RECURSIVE RunLen(_, _, _)
RunLen(s, i, c) ==
    IF i <= Len(s) /\ s[i] = c THEN 1 + RunLen(s, i + 1, c) ELSE 0

SubClass == {"*", "^", "."}

\* re.sub(r'([\**^\.]\*+)', '.*', regex)
RECURSIVE SubAsteriks(_)
SubAsteriks(s) ==
    IF s = <<>> THEN <<>>
    ELSE IF s[1] \in SubClass /\ RunLen(s, 2, "*") >= 1
         THEN <<".", "*">> \o SubAsteriks(Drop(s, 1 + RunLen(s, 2, "*")))
         ELSE <<s[1]>> \o SubAsteriks(Tail(s))

\* the replacement template '^\.\*$': re.sub keeps the backslashes of the
\* unknown escapes \. and \*
DOT_REPLACEMENT == <<"^", "\\", ".", "\\", "*", "$">>

\* re.sub(r'([\.*^\*]\.+)', '^\.\*$', regex)
RECURSIVE SubDots(_)
SubDots(s) ==
    IF s = <<>> THEN <<>>
    ELSE IF s[1] \in SubClass /\ RunLen(s, 2, ".") >= 1
         THEN DOT_REPLACEMENT \o SubDots(Drop(s, 1 + RunLen(s, 2, ".")))
         ELSE <<s[1]>> \o SubDots(Tail(s))

\* re.compile over PatChars.  prev is the kind of the item before the
\* cursor: "none", "at" (^ or $), "item" (repeatable) or "rep" (repeated).
RECURSIVE CompilesFrom(_, _)
CompilesFrom(s, prev) ==
    IF s = <<>> THEN TRUE
    ELSE IF s[1] = "\\"
         THEN /\ Len(s) >= 2
              /\ s[2] # "c"
              /\ CompilesFrom(Drop(s, 2), "item")
    ELSE IF s[1] \in {"^", "$"} THEN CompilesFrom(Tail(s), "at")
    ELSE IF s[1] = "*"
         THEN /\ prev = "item"
              /\ CompilesFrom(Tail(s), "rep")
    ELSE CompilesFrom(Tail(s), "item")

Compiles(s) == CompilesFrom(s, "none")

Canonicalize(txt) == IF IsDotStar(txt) THEN UNIVERSAL ELSE txt

FixAsteriks(txt) == IF unsafeAsteriks(txt) THEN SubAsteriks(txt) ELSE txt

FixDots(txt) == IF unsafeDots(txt) THEN SubDots(txt) ELSE txt

CompileOrFallback(txt) == IF Compiles(txt) THEN txt ELSE UNIVERSAL

(***************************************************************************)
(* The run: configuration                                                  *)
(***************************************************************************)
SUB_KEY == <<"{", "}">>

POSIX_BASED_OS == "posix"

WINDOWS_NT == "nt"

\* SUPPORTS_TERMINAL_COLORING = (re.match(POSIX_BASED_OS, OS_NAME) != None)
SUPPORTS_TERMINAL_COLORING(os) == os = POSIX_BASED_OS

\* the names of the file system entries: the root and the others
RootName == "a"

OtherNames == <<"b", "d", "e">>

Entries == {RootName} \cup {OtherNames[i] : i \in 1..(NumEntries - 1)}

targetPath == <<RootName>>

\* What os.path.exists, os.access(R_OK), S_ISDIR(os.stat) and os.listdir
\* answer for an entry.  Answers the code cannot observe are normalised:
\* only a readable directory has a listing.  A listing may name any entry,
\* the directory itself or an ancestor included (links), and an entry that
\* does not exist (a dangling link); it has at most MaxFanout names.
EntryStates ==
    {s \in [exists : BOOLEAN, readable : BOOLEAN, isDir : BOOLEAN,
            listing : SUBSET Entries] :
        /\ s.readable => s.exists
        /\ s.isDir => s.readable
        /\ (s.listing # {}) => s.isDir
        /\ Cardinality(s.listing) <= MaxFanout}

Missing ==
    [exists |-> FALSE, readable |-> FALSE, isDir |-> FALSE, listing |-> {}]

\* the entries some call of depth d or less below entry e can ask about
RECURSIVE Observable(_, _, _)
Observable(files, e, d) ==
    IF d < 0 THEN {}
    ELSE {e} \cup UNION {Observable(files, c, d - 1) : c \in files[e].listing}

\* The file systems of the model: every assignment of answers to the
\* entries the traversal can ask about; the others are left Missing.
FileSystems(depth) ==
    {files \in [Entries -> EntryStates] :
        \A e \in Entries \ Observable(files, RootName, depth) :
            files[e] = Missing}

\* the entry a path names: its last component
EntryOf(path) == path[Len(path)]

existantPath(path) == fs[EntryOf(path)].exists

hasReadPerm(path) == fs[EntryOf(path)].readable

S_ISDIR(path) == fs[EntryOf(path)].isDir

\* The order os.listdir returns names in.  It is arbitrary but fixed; the
\* file systems of the model put a failing entry before and after a good
\* one in this order.
ListingOrder == SubSeq(OtherNames, 1, NumEntries - 1) \o <<RootName>>

\* os.listdir: the names of the listing
listdir(path) ==
    SelectSeq(ListingOrder, LAMBDA n : n \in fs[EntryOf(path)].listing)

\* os.path.join(thePath, child)
join(path, child) == path \o <<"/", child>>

\* number of directory descents between the root and the path
Nesting(path) == (Len(path) - 1) \div 2

\* The compiled patterns of the model: ^.*$ ("all"), a one-character
\* literal ("lit") and a literal followed by a second, empty group
\* ("grp", e.g. (b)() ), for which findall yields tuples.
MatchChar == "b"

Patterns ==
    {[kind |-> k, ch |-> MatchChar] : k \in {"all", "lit", "grp"}}

\* regexCompile.findall(text): the matched substrings, left to right
RECURSIVE Occurrences(_, _)
Occurrences(ch, text) ==
    IF text = <<>> THEN <<>>
    ELSE IF text[1] = ch THEN <<(<<ch>>)>> \o Occurrences(ch, Tail(text))
    ELSE Occurrences(ch, Tail(text))

findall(p, text) ==
    IF p.kind = "all" THEN <<text>> ELSE Occurrences(p.ch, text)

\* findall yields tuples, not strings, when the pattern has several groups
YieldsTuples(p) == p.kind = "grp"

\* ' '.join(regMatches)
RECURSIVE JoinSpace(_)
JoinSpace(items) ==
    IF items = <<>> THEN <<>>
    ELSE IF Len(items) = 1 THEN items[1]
    ELSE items[1] \o <<" ">> \o JoinSpace(Tail(items))

\* the action templates of the model: none, "c {}", "x {}" and " "
ActionTemplates ==
    {<<>>, <<"c", " ", "{", "}">>, <<"x", " ", "{", "}">>, <<" ">>}

\* the commands Popen finds on the PATH
Executables == {<<"c">>}

LineChars == {"b", " "}

RECURSIVE SeqsUpTo(_, _)
SeqsUpTo(S, n) ==
    IF n = 0 THEN {<<>>}
    ELSE LET shorter == SeqsUpTo(S, n - 1)
         IN  shorter \cup {Append(s, x) : s \in shorter, x \in S}

(***************************************************************************)
(* matchPatterns, lines 147-170                                            *)
(***************************************************************************)
\* handlePrint writes a string only when it is not empty (line 80)
handlePrint(rec) ==
    IF rec.text = <<>> /\ ~rec.colored THEN <<>> ELSE <<rec>>

\* Result: raised (a TypeError left the function), matched (the return
\* value) and printed (what reached stdout).  colorPatterns wraps the text
\* in escape sequences, so a coloured string is never empty.
matchPatterns(regexCompile, text, verbose, onlyPatternsPrinted, os) ==
    LET regMatches == findall(regexCompile, text)
        colored == SUPPORTS_TERMINAL_COLORING(os)
        silent == [raised |-> FALSE, matched |-> regMatches # <<>>,
                   printed |-> <<>>]
        typeError == [raised |-> TRUE, matched |-> FALSE, printed |-> <<>>]
    IN  IF regMatches = <<>> THEN silent
        ELSE IF onlyPatternsPrinted
             THEN IF YieldsTuples(regexCompile) THEN typeError
                  ELSE [silent EXCEPT !.printed =
                           handlePrint([kind |-> "matches",
                                        text |-> JoinSpace(regMatches),
                                        colored |-> colored])]
        ELSE IF verbose
             THEN IF colored /\ YieldsTuples(regexCompile) THEN typeError
                  ELSE [silent EXCEPT !.printed =
                           handlePrint([kind |-> "line", text |-> text,
                                        colored |-> colored])]
        ELSE silent

(***************************************************************************)
(* handleFunctionExecution, lines 262-274                                  *)
(***************************************************************************)
\* action.replace(SUB_KEY, subject)
RECURSIVE Replace(_, _)
Replace(template, subject) ==
    IF template = <<>> THEN <<>>
    ELSE IF Len(template) >= 2 /\ SubSeq(template, 1, 2) = SUB_KEY
         THEN subject \o Replace(Drop(template, 2), subject)
         ELSE <<template[1]>> \o Replace(Tail(template), subject)

FirstSpace(s) ==
    IF \E i \in 1..Len(s) : s[i] = " "
    THEN CHOOSE i \in 1..Len(s) :
            s[i] = " " /\ \A j \in 1..(i - 1) : s[j] # " "
    ELSE 0

\* cmdText.split(" ")
RECURSIVE Split(_)
Split(s) ==
    IF FirstSpace(s) = 0 THEN <<s>>
    ELSE <<SubSeq(s, 1, FirstSpace(s) - 1)>> \o Split(Drop(s, FirstSpace(s)))

\* list(filter(lambda item: item, cmdText.split(" ")))
CmdList(cmdText) == SelectSeq(Split(cmdText), LAMBDA item : item # <<>>)

\* What Popen(cmdList) does: IndexError on an empty list, FileNotFoundError
\* on a command that is not on the PATH, a child process otherwise.
Popen(cmdList) ==
    IF cmdList = <<>> THEN "IndexError"
    ELSE IF cmdList[1] \notin Executables THEN "FileNotFoundError"
    ELSE "none"

\* Result: the record of the invocation, the exception that left the
\* function, the number of child processes still running on return, and
\* what handlePrint wrote (the output of os.popen on nt).
handleFunctionExecution(template, subject, os) ==
    LET cmdText == Replace(template, subject)
        cmdList == CmdList(cmdText)
    IN  IF os = WINDOWS_NT
        THEN [call |-> [subject |-> subject, cmdText |-> cmdText,
                        argv |-> <<>>, shell |-> TRUE],
              raised |-> "none", spawned |-> 0,
              printed |-> <<[kind |-> "action", text |-> cmdText,
                             colored |-> FALSE]>>]
        ELSE [call |-> [subject |-> subject, cmdText |-> cmdText,
                        argv |-> cmdList, shell |-> FALSE],
              raised |-> Popen(cmdList),
              spawned |-> IF Popen(cmdList) = "none" THEN 1 ELSE 0,
              printed |-> <<>>]

(***************************************************************************)
(* Match, then act: lines 196-201 of treeTraverse, 305-309 of filterStdin  *)
(***************************************************************************)
MatchAndAct(subject) ==
    LET m == matchPatterns(pat, subject, verbosity, onlyMatches, osName)
        x == handleFunctionExecution(action, subject, osName)
        acts == ~m.raised /\ m.matched /\ action # <<>>
    IN  [eval |-> [subject |-> subject,
                   dispatches |-> IF acts THEN 1 ELSE 0],
         calls |-> IF acts THEN <<x.call>> ELSE <<>>,
         printed |-> m.printed \o (IF acts THEN x.printed ELSE <<>>),
         spawned |-> IF acts THEN x.spawned ELSE 0,
         fault |-> IF m.raised THEN "TypeError"
                   ELSE IF acts THEN x.raised ELSE "none"]

(***************************************************************************)
(* treeTraverse, lines 172-212                                             *)
(*                                                                         *)
(* stack holds one frame per call that is iterating over its children,     *)
(* innermost first: depth is the recursionDepth it passes on and todo the  *)
(* paths it has still to call treeTraverse on.  The outermost frame is     *)
(* main's call on targetPath.  regCompile always comes from re.compile, so *)
(* the hasattr guard of line 181 never fires.                              *)
(***************************************************************************)
\* the guards with the existence and permission checks ahead of the depth
\* check
TraverseGuardChecksPathFirst(recursionDepth, exists, readable) ==
    IF ~exists THEN "missing"
    ELSE IF ~readable THEN "noread"
    ELSE IF recursionDepth < 0 THEN "floor"
    ELSE "evaluate"

\* the guards of lines 185-194, in the order of the code
TraverseGuard(recursionDepth, exists, readable) ==
    IF recursionDepth < 0 THEN "floor"
    ELSE IF ~exists THEN "missing"
    ELSE IF ~readable THEN "noread"
    ELSE "evaluate"

\* the depth handed on without the decrement
ChildDepthNotDecremented(recursionDepth) == recursionDepth

\* recursionDepth -= 1 (line 204): the depth handed to the children
ChildDepth(recursionDepth) == recursionDepth - 1

\* lines 206-208: the paths the for loop calls treeTraverse on
ChildPaths(thePath) ==
    IF S_ISDIR(thePath)
    THEN [i \in 1..Len(listdir(thePath)) |-> join(thePath, listdir(thePath)[i])]
    ELSE <<>>

\* an uncaught exception unwinds every frame and ends the run
Raise(exc) ==
    /\ fault' = exc
    /\ pc' = "done"

TreeTraverse ==
    /\ mode = "tree"
    /\ pc = "traverse"
    /\ stack # <<>>
    /\ Head(stack).todo # <<>>
    /\ LET caller == Head(stack)
           thePath == Head(caller.todo)
           recursionDepth == caller.depth
           returned == <<[caller EXCEPT !.todo = Tail(caller.todo)]>>
                          \o Tail(stack)
           guard == TraverseGuard(recursionDepth, existantPath(thePath),
                                  hasReadPerm(thePath))
           r == MatchAndAct(thePath)
       IN  /\ calls' = Append(calls, [path |-> thePath,
                                      depth |-> recursionDepth])
           /\ CASE guard = "floor" ->
                     /\ stack' = returned
                     /\ UNCHANGED <<pc, evals, dispatched, out, err,
                                    running, fault>>
                [] guard = "missing" ->
                     /\ err' = Append(err, [kind |-> "missing",
                                            path |-> thePath])
                     /\ stack' = returned
                     /\ UNCHANGED <<pc, evals, dispatched, out, running,
                                    fault>>
                [] guard = "noread" ->
                     /\ err' = Append(err, [kind |-> "noread",
                                            path |-> thePath])
                     /\ stack' = returned
                     /\ UNCHANGED <<pc, evals, dispatched, out, running,
                                    fault>>
                [] guard = "evaluate" ->
                     /\ evals' = Append(evals, r.eval)
                     /\ dispatched' = dispatched \o r.calls
                     /\ out' = out \o r.printed
                     /\ running' = running + r.spawned
                     /\ UNCHANGED err
                     /\ IF r.fault # "none"
                        THEN /\ Raise(r.fault)
                             /\ UNCHANGED stack
                        ELSE /\ stack' =
                                  <<[depth |-> ChildDepth(recursionDepth),
                                     todo |-> ChildPaths(thePath)]>>
                                     \o returned
                             /\ UNCHANGED <<pc, fault>>
    /\ UNCHANGED <<sanVars, cfgVars, stdin, lineIn, stdinReading>>

\* the for loop of a call is exhausted: the call returns; when main's call
\* returns the run is over
TreeReturn ==
    /\ mode = "tree"
    /\ pc = "traverse"
    /\ stack # <<>>
    /\ Head(stack).todo = <<>>
    /\ stack' = Tail(stack)
    /\ pc' = IF Tail(stack) = <<>> THEN "done" ELSE pc
    /\ UNCHANGED <<sanVars, cfgVars, stdin, lineIn, stdinReading, calls,
                   evals, dispatched, out, err, running, fault>>

(***************************************************************************)
(* filterStdin, lines 284-309                                              *)
(***************************************************************************)
\* sys.stdin.readline(): the next line with its newline, "" at end of file
readline(stream) ==
    IF stream = <<>> THEN <<>> ELSE Append(Head(stream), "\n")

\* lineIn.strip('\n')
RECURSIVE strip(_)
strip(s) ==
    IF s = <<>> THEN <<>>
    ELSE IF s[1] = "\n" THEN strip(Tail(s))
    ELSE IF s[Len(s)] = "\n" THEN strip(SubSeq(s, 1, Len(s) - 1))
    ELSE s

\* lines 294-296: the read returns; an empty read clears stdinReading, and
\* the else clause of the try statement runs in either case
FilterRead ==
    /\ mode = "filter"
    /\ pc = "read"
    /\ lineIn' = readline(stdin)
    /\ stdin' = IF stdin = <<>> THEN stdin ELSE Tail(stdin)
    /\ stdinReading' = IF readline(stdin) = <<>> THEN FALSE ELSE stdinReading
    /\ pc' = "eval"
    /\ UNCHANGED <<sanVars, cfgVars, stack, calls, evals, dispatched, out,
                   err, running, fault>>

\* lines 300-302: the read raises something else than KeyboardInterrupt
FilterReadFault ==
    /\ mode = "filter"
    /\ pc = "read"
    /\ out' = Append(out, [kind |-> "exception", text |-> <<>>,
                           colored |-> FALSE])
    /\ stdinReading' = FALSE
    /\ pc' = "done"
    /\ UNCHANGED <<sanVars, cfgVars, stack, stdin, lineIn, calls, evals,
                   dispatched, err, running, fault>>

\* where the loop goes after the else clause: `while stdinReading`
AfterEval(reading) == IF reading THEN "read" ELSE "done"

\* lines 303-309: the else clause
FilterEval ==
    /\ mode = "filter"
    /\ pc = "eval"
    /\ LET r == MatchAndAct(strip(lineIn))
       IN  /\ lineIn' = strip(lineIn)
           /\ evals' = Append(evals, r.eval)
           /\ dispatched' = dispatched \o r.calls
           /\ out' = out \o r.printed
           /\ running' = running + r.spawned
           /\ IF r.fault # "none"
              THEN Raise(r.fault)
              ELSE /\ pc' = AfterEval(stdinReading)
                   /\ UNCHANGED fault
    /\ UNCHANGED <<sanVars, cfgVars, stack, stdin, stdinReading, calls, err>>

\* which part of the loop body a KeyboardInterrupt is raised in: only the
\* readline of line 294 is inside the try statement
InterruptCaught(at) == at = "read"

\* Ctrl-C while the filter loop runs
Interrupt ==
    /\ mode = "filter"
    /\ pc \in {"read", "eval"}
    /\ IF InterruptCaught(pc)
       THEN /\ out' = Append(out, [kind |-> "farewell", text |-> <<>>,
                                   colored |-> FALSE])
            /\ stdinReading' = FALSE
            /\ pc' = "done"
            /\ UNCHANGED fault
       ELSE /\ Raise("KeyboardInterrupt")
            /\ UNCHANGED <<out, stdinReading>>
    /\ UNCHANGED <<sanVars, cfgVars, stack, stdin, lineIn, calls, evals,
                   dispatched, err, running>>

\* a spawned action process exits; nothing in the program waits for it
\* (the wait of lines 277-282 is commented out)
ChildExit ==
    /\ running > 0
    /\ running' = running - 1
    /\ UNCHANGED <<sanVars, cfgVars, stack, pc, stdin, lineIn, stdinReading,
                   calls, evals, dispatched, out, err, fault>>

(***************************************************************************)
(* Specifications                                                          *)
(***************************************************************************)
SanIdle ==
    /\ raw = <<>>
    /\ regex = <<>>
    /\ sanPc = "compiled"
    /\ compiled = <<>>

RunStart ==
    /\ calls = <<>>
    /\ evals = <<>>
    /\ dispatched = <<>>
    /\ out = <<>>
    /\ err = <<>>
    /\ running = 0
    /\ fault = "none"

\* main, lines 256-260, after the depth checks of lines 228-236
Init ==
    /\ SanIdle
    /\ RunStart
    /\ pat \in Patterns
    /\ action \in ActionTemplates
    /\ verbosity \in BOOLEAN
    /\ onlyMatches \in BOOLEAN
    /\ osName \in {POSIX_BASED_OS, WINDOWS_NT}
    /\ mode \in {"tree", "filter"}
    /\ \/ /\ mode = "tree"
          /\ maxdepth \in 0..MaxDepth
          /\ fs \in FileSystems(maxdepth)
          /\ input = <<>>
          /\ stack = <<[depth |-> maxdepth, todo |-> <<targetPath>>]>>
          /\ pc = "traverse"
          /\ stdin = <<>>
          /\ lineIn = <<>>
          /\ stdinReading = FALSE
       \/ /\ mode = "filter"
          /\ fs = [e \in Entries |-> Missing]
          /\ maxdepth = 0
          /\ stack = <<>>
          /\ pc = "read"
          /\ input \in SeqsUpTo(StringsUpTo(LineChars, MaxLineLen), MaxLines)
          /\ stdin = input
          /\ lineIn = <<>>
          /\ stdinReading = TRUE

Next ==
    \/ TreeTraverse
    \/ TreeReturn
    \/ FilterRead
    \/ FilterReadFault
    \/ FilterEval
    \/ Interrupt
    \/ ChildExit

Spec == Init /\ [][Next]_vars

\* main, lines 242-255, one statement per step
RunIdle ==
    /\ RunStart
    /\ mode = "filter"
    /\ fs = [e \in Entries |-> Missing]
    /\ input = <<>>
    /\ maxdepth = 0
    /\ pat = [kind |-> "all", ch |-> MatchChar]
    /\ action = <<>>
    /\ verbosity = TRUE
    /\ onlyMatches = FALSE
    /\ osName = POSIX_BASED_OS
    /\ stack = <<>>
    /\ pc = "done"
    /\ stdin = <<>>
    /\ lineIn = <<>>
    /\ stdinReading = FALSE

InitSan ==
    /\ RunIdle
    /\ raw \in StringsUpTo(PatChars, MaxPatLen)
    /\ regex = raw
    /\ sanPc = "canonical"
    /\ compiled = <<>>

\* lines 242-243
SanCanonical ==
    /\ sanPc = "canonical"
    /\ regex' = Canonicalize(regex)
    /\ sanPc' = "asteriks"
    /\ UNCHANGED <<raw, compiled, cfgVars, runVars>>

\* lines 245-246
SanAsteriks ==
    /\ sanPc = "asteriks"
    /\ regex' = FixAsteriks(regex)
    /\ sanPc' = "dots"
    /\ UNCHANGED <<raw, compiled, cfgVars, runVars>>

\* lines 248-249
SanDots ==
    /\ sanPc = "dots"
    /\ regex' = FixDots(regex)
    /\ sanPc' = "compile"
    /\ UNCHANGED <<raw, compiled, cfgVars, runVars>>

\* lines 252-255
SanCompile ==
    /\ sanPc = "compile"
    /\ compiled' = CompileOrFallback(regex)
    /\ sanPc' = "compiled"
    /\ UNCHANGED <<raw, regex, cfgVars, runVars>>

NextSan == SanCanonical \/ SanAsteriks \/ SanDots \/ SanCompile

SpecSan == InitSan /\ [][NextSan]_vars

(***************************************************************************)
(* Properties                                                              *)
(***************************************************************************)
EvalSubjects == [i \in 1..Len(evals) |-> evals[i].subject]

ErrorPath(path) == ~existantPath(path) \/ ~hasReadPerm(path)

\* the paths within d descents of path that a chain of existing, readable
\* directories leads to
RECURSIVE WithinDepth(_, _)
WithinDepth(path, d) ==
    IF d < 0 \/ ErrorPath(path) THEN {}
    ELSE {path} \cup
         UNION {WithinDepth(join(path, c), d - 1) :
                   c \in fs[EntryOf(path)].listing}

\* C1: when treeTraverse(targetPath, maxdepth) is over, the Matcher has run
\* on the root and on every existing, readable descendant at distance
\* 1..maxdepth, and on nothing else.
C1_EvaluatesExactlyWithinDepth ==
    (mode = "tree" /\ pc = "done") =>
        Range(EvalSubjects) = WithinDepth(targetPath, maxdepth)

LaunchFailed(d) == ~d.shell /\ Popen(d.argv) # "none"

\* C2: an action that fails to launch does not abort the run: no exception
\* leaves treeTraverse or filterStdin because of it.
C2_LaunchFailureDoesNotAbort ==
    (\E i \in 1..Len(dispatched) : LaunchFailed(dispatched[i])) =>
        fault = "none"

\* C3: action execution is synchronous, so at most one action process is
\* running at any time.
C3_AtMostOneActionRunning == running <= 1

IsPrefix(s, t) == Len(s) <= Len(t) /\ s = SubSeq(t, 1, Len(s))

\* the filter loop ended because the read returned the empty string
EndOfStream ==
    /\ mode = "filter"
    /\ pc = "done"
    /\ fault = "none"
    /\ \A i \in 1..Len(out) : out[i].kind \notin {"farewell", "exception"}

\* C4: in filter mode the Matcher runs once per input line, in input
\* order, exactly n times when the stream of n lines ends, and every
\* dispatched subject is an input line; the empty read of end-of-stream is
\* never matched or dispatched.
C4_FilterEvaluatesInputLinesOnly ==
    (mode = "filter") =>
        /\ IsPrefix(EvalSubjects, input)
        /\ EndOfStream => EvalSubjects = input
        /\ \A i \in 1..Len(dispatched) :
              dispatched[i].subject \in Range(input)

RECURSIVE TokenCount(_)
TokenCount(template) ==
    IF Len(template) < 2 THEN 0
    ELSE IF SubSeq(template, 1, 2) = SUB_KEY
         THEN 1 + TokenCount(Drop(template, 2))
         ELSE TokenCount(Tail(template))

IsInfix(s, t) ==
    \E i \in 0..(Len(t) - Len(s)) : SubSeq(t, i + 1, i + Len(s)) = s

\* C5: with a template that holds the token {} exactly once, the executed
\* command carries the literal subject text unaltered: the command line
\* handed to the shell contains it, and on the POSIX path one argument of
\* the list passed to the child process contains it.
C5_SubjectReachesCommandIntact ==
    (TokenCount(action) = 1) =>
        \A i \in 1..Len(dispatched) :
            LET d == dispatched[i]
            IN  IF d.shell THEN IsInfix(d.subject, d.cmdText)
                ELSE \E k \in 1..Len(d.argv) : IsInfix(d.subject, d.argv[k])

\* C6: a path error is local to its node.  A call on a path that does not
\* exist or is not readable, made with non-negative depth, writes exactly
\* one report to stderr, matches nothing, dispatches nothing, descends
\* nowhere and hands control back to its caller, whose remaining children
\* stay pending; a call made with negative depth returns the same way and
\* writes nothing, whatever the state of its path.
C6_PathErrorIsLocal ==
    [][(calls' # calls) =>
          LET c == calls'[Len(calls')]
              continues ==
                  stack' = <<[Head(stack) EXCEPT !.todo = Tail(@)]>>
                              \o Tail(stack)
              quiet == UNCHANGED <<pc, evals, dispatched, out, running,
                                   fault>>
          IN  IF c.depth < 0 THEN continues /\ quiet /\ err' = err
              ELSE IF ~existantPath(c.path)
                   THEN /\ continues
                        /\ quiet
                        /\ err' = Append(err, [kind |-> "missing",
                                               path |-> c.path])
              ELSE IF ~hasReadPerm(c.path)
                   THEN /\ continues
                        /\ quiet
                        /\ err' = Append(err, [kind |-> "noread",
                                               path |-> c.path])
              ELSE err' = err]_vars

Parent(path) == SubSeq(path, 1, Len(path) - 2)

\* a path error was reported, a sibling called after it was evaluated, and
\* a missing path called with negative depth went unreported
C6_Witness ==
    /\ \E i \in 1..Len(calls) : \E j \in (i + 1)..Len(calls) :
          /\ calls[i].depth >= 0
          /\ ErrorPath(calls[i].path)
          /\ calls[i].path \in {err[k].path : k \in 1..Len(err)}
          /\ Len(calls[j].path) = Len(calls[i].path)
          /\ Parent(calls[j].path) = Parent(calls[i].path)
          /\ calls[j].path \in Range(EvalSubjects)
    /\ \E i \in 1..Len(calls) :
          /\ calls[i].depth < 0
          /\ ~existantPath(calls[i].path)
          /\ calls[i].path \notin {err[k].path : k \in 1..Len(err)}

\* C7: for every subject evaluated, the dispatcher is invoked exactly once
\* if the pattern has a match in the subject and an action template is
\* configured, and not at all otherwise, whatever the verbosity and
\* only-matches flags are.
C7_DispatchedOncePerMatch ==
    \A i \in 1..Len(evals) :
        evals[i].dispatches =
            IF findall(pat, evals[i].subject) # <<>> /\ action # <<>>
            THEN 1 ELSE 0

\* position i of s is preceded by an odd number of backslashes
RECURSIVE Escaped(_, _)
Escaped(s, i) ==
    IF i > 1 /\ s[i - 1] = "\\" THEN ~Escaped(s, i - 1) ELSE FALSE

\* every unescaped dot is followed by an asterisk and every asterisk is
\* preceded by a dot
WellFormed(s) ==
    \A i \in 1..Len(s) :
        /\ (s[i] = "." /\ ~Escaped(s, i)) => (i < Len(s) /\ s[i + 1] = "*")
        /\ (s[i] = "*") => (i > 1 /\ s[i - 1] = ".")

\* C8: a well-formed pattern reaches re.compile as the string the user
\* gave, and the pattern .* reaches it as ^.*$
C8_SanitizationIsIdentity ==
    (sanPc \in {"compile", "compiled"}) =>
        IF raw = <<".", "*">> THEN regex = UNIVERSAL
        ELSE WellFormed(raw) => regex = raw

\* C9: an interrupt delivered anywhere in the filter loop never leaves
\* filterStdin as an unhandled exception.
C9_InterruptNeverPropagates == fault # "KeyboardInterrupt"

\* an upper bound on the steps a call made with depth d can still take:
\* the call, its return, and the calls on at most NumEntries children
RECURSIVE Weight(_)
Weight(d) == IF d < 0 THEN 1 ELSE 2 + NumEntries * Weight(d - 1)

RECURSIVE Pending(_)
Pending(frames) ==
    IF frames = <<>> THEN 0
    ELSE 1 + Len(Head(frames).todo) * Weight(Head(frames).depth)
           + Pending(Tail(frames))

\* the steps the traversal can still take
Measure == IF pc = "done" THEN 0 ELSE Pending(stack)

\* C10: every traversal terminates.  Each call is handed a depth one less
\* than its caller's and a call with negative depth evaluates nothing, so
\* no path is evaluated more than maxdepth descents below the root; until
\* the traversal is over (it has returned, or an exception has left it) a
\* step is always possible, and every step strictly decreases a natural
\* number, also on file systems whose listings form cycles.
C10_TraversalTerminates ==
    /\ [](mode = "tree" =>
            /\ \A i \in 1..Len(calls) :
                  calls[i].depth = maxdepth - Nesting(calls[i].path)
            /\ \A i \in 1..Len(evals) :
                  Nesting(evals[i].subject) <= maxdepth
            /\ Measure \in Nat
            /\ (pc = "traverse") => (stack # <<>>))
    /\ [][(mode = "tree" /\ (stack' # stack \/ pc' # pc)) =>
             Measure' < Measure]_vars

\* a traversal through a cycle of listings is over: a path that repeats a
\* name was evaluated at the deepest level the depth allows
C10_Witness ==
    /\ mode = "tree"
    /\ pc = "done"
    /\ fault = "none"
    /\ maxdepth >= 1
    /\ \E i \in 1..Len(evals) :
          /\ Nesting(evals[i].subject) = maxdepth
          /\ \E m, n \in 1..Len(evals[i].subject) :
                /\ m < n
                /\ evals[i].subject[m] # "/"
                /\ evals[i].subject[m] = evals[i].subject[n]

====
